---- MODULE Spec2Model ----
(***************************************************************************)
(* State-machine model of the sa package manager's acquisition pipeline:   *)
(* the package cache (modules/cache.rs), the mirror registry               *)
(* (modules/mirrors.rs), the vulnerability index (modules/security.rs) and *)
(* the `add` pipeline (install_package_with_cache, main.rs).               *)
(*                                                                         *)
(* Each component has its own specification (CacheSpec, MirrorSpec,        *)
(* SecuritySpec, Spec); a component's specification leaves the other       *)
(* components' variables unchanged.  Further specifications follow what    *)
(* several processes do to shared files and directories (EnsureSpec,       *)
(* RefreshSpec, PeersSpec), a failing database or file system              *)
(* (CacheFaultSpec), container execution (DockerSpec) and range matching   *)
(* on its own (MatchSpec).                                                 *)
(***************************************************************************)
EXTENDS Integers, Sequences, FiniteSets, TLC

VARIABLES
    rows,        \* cache.db: the rows of table cached_packages
    files,       \* the paths at which a file exists on disk
    cacheLast,   \* the last cache operation and what it returned
    mirrors,     \* MirrorManager.mirrors: the registry handle's Vec<Mirror>
    config,      \* the contents of mirrors.json on disk
    mirrorLast,  \* the last registry operation and its result
    vulnerability_db, \* SecurityScanner.vulnerability_db of the index handle
    db_file,     \* the contents of vulnerabilities.json on disk
    secLast,     \* the last index operation and its result
    requirements, \* the lines of requirements.txt
    venv,        \* whether the directory .sa_env exists
    site_packages, \* the packages pip has installed into .sa_env
    history,     \* the package requests made so far and their results
    batch,       \* the `sa add` invocation under way: its packages and result
    ensure,      \* each concurrent ensure_venv_exists call: its position
    venvReady,   \* whether `python3 -m venv` has completed .sa_env
    refresh,     \* a refresh of the index whose fs::write is under way
    reader,      \* a second SecurityScanner handle, in another process
    peer,        \* a second MirrorManager handle, in another process
    containers,  \* the containers that exist at the Docker daemon
    images,      \* the image tags that exist at the Docker daemon
    dockerLast,  \* the last execute_in_environment call and its result
    run,         \* the `sa run --docker` invocation under way: its position
    matchLast,   \* the last version_matches call and its result
    graphLast    \* the last create_dependency_graph call and its result

cacheVars == <<rows, files, cacheLast>>
mirrorVars == <<mirrors, config, mirrorLast>>
secVars == <<vulnerability_db, db_file, secLast>>
pipeVars == <<requirements, venv, site_packages, history, batch>>
ensureVars == <<ensure, venvReady>>
refreshVars == <<refresh, reader>>
peerVars == <<peer>>
dockerVars == <<containers, images, dockerLast, run>>
matchVars == <<matchLast, graphLast>>
sideVars == <<ensureVars, refreshVars, peerVars, dockerVars, matchVars>>

(***************************************************************************)
(* Bounds of the model                                                     *)
(***************************************************************************)
\* Number of distinct record contents (hash, timestamp, metadata) per key.
MaxVariant == 2
\* Longest mirror list: add is not offered beyond it.
MaxMirrors == 3
\* Latest reading of the clock (chrono::Utc::now) during a refresh.
MaxTime == 2
\* Number of package requests followed.
MaxRequests == 2
\* Number of processes that call ensure_venv_exists at the same time.
MaxProcs == 3
\* Number of execute_in_environment calls followed.
MaxExecs == 4
\* Number of `sa run --docker` invocations followed.
MaxRuns == 2
\* Longest dependency list of a package.
MaxDeps == 2

(***************************************************************************)
(* Cache Store: modules/cache.rs                                           *)
(***************************************************************************)
Names == {"a", "b"}
Versions == {"1"}

None == [none |-> TRUE]

\* format!("{}-{}.whl", name, version) joined to cache_dir
CachePath(name, version) == "sa-cache/" \o name \o "-" \o version \o ".whl"

\* A path outside the cache directory, and a path inside it whose bytes are
\* not valid UTF-8 together with what to_string_lossy makes of it.
ExternalPath == "/srv/wheels/ext.whl"
NonUtf8Path == "sa-cache/caf<FF>.whl"
LossyPath == "sa-cache/caf<U+FFFD>.whl"

ArtifactPaths ==
    {CachePath(n, v) : n \in Names, v \in Versions}
        \cup {ExternalPath, NonUtf8Path, LossyPath}

\* cache_dir.join("cache.db"), and a file in the cache directory that the
\* cache did not put there
CacheDbPath == "sa-cache/cache.db"
StrayPath == "sa-cache/notes.txt"
DiskPaths == ArtifactPaths \cup {StrayPath}

\* cache_dir.join(..): the files that live directly in the cache directory
InCacheDir(p) == p # ExternalPath

\* entry.path().extension() == "whl"
HasWhlExtension(p) == p \in ArtifactPaths

\* PackageMetadata and its Default
DefaultMetadata ==
    [description |-> "", author |-> "", license |-> "",
     dependencies |-> <<>>, keywords |-> <<>>, home_page |-> ""]

Metadata(i) ==
    [description |-> "description " \o ToString(i), author |-> "author",
     license |-> "MIT",
     dependencies |-> <<"dep" \o ToString(i)>>, keywords |-> <<"http">>,
     home_page |-> "https://example.org"]

\* struct CachedPackage
CachedPackage(name, version, i, path) ==
    [name |-> name, version |-> version, hash |-> "sha256:" \o ToString(i),
     download_url |-> "https://pypi.org/simple/" \o name,
     cached_at |-> i, file_path |-> path, metadata |-> Metadata(i)]

\* The records the callers may hand to store_package.
Packages ==
    UNION {{CachedPackage(n, v, i, p) :
               p \in {CachePath(n, v), ExternalPath, NonUtf8Path}} :
           n \in Names, v \in Versions, i \in 1..MaxVariant}

\* DateTime::to_rfc3339 and DateTime::parse_from_rfc3339(..).unwrap_or_else(now)
ToRfc3339(t) == [rfc3339 |-> TRUE, t |-> t]
ParseRfc3339(s, now) == IF s.rfc3339 THEN s.t ELSE now

\* Path::to_string_lossy and PathBuf::from
ToStringLossy(p) == IF p = NonUtf8Path THEN LossyPath ELSE p
PathBufFrom(s) == s

\* serde_json::to_string(&metadata) and serde_json::from_str(..).unwrap_or_default()
MetadataToJson(m) == [json |-> TRUE, value |-> m]
\* Faulty variant: the parse always falls back to the default metadata.
MetadataFromJsonDefault(s) == DefaultMetadata
MetadataFromJson(s) == IF s.json THEN s.value ELSE DefaultMetadata

\* The seven TEXT columns bound by store_package's INSERT
RowOf(package) ==
    [name |-> package.name, version |-> package.version, hash |-> package.hash,
     download_url |-> package.download_url,
     cached_at |-> ToRfc3339(package.cached_at),
     file_path |-> ToStringLossy(package.file_path),
     metadata |-> MetadataToJson(package.metadata)]

\* The row mapper of get_package's query_row
PackageOfRow(row, now) ==
    [name |-> row.name, version |-> row.version, hash |-> row.hash,
     download_url |-> row.download_url,
     cached_at |-> ParseRfc3339(row.cached_at, now),
     file_path |-> PathBufFrom(row.file_path),
     metadata |-> MetadataFromJson(row.metadata)]

\* SELECT ... WHERE name = ?1 AND version = ?2
SelectRows(table, name, version) ==
    {r \in table : r.name = name /\ r.version = version}

\* DELETE FROM cached_packages WHERE name = ?1 AND version = ?2
DeleteRows(table, name, version) ==
    {r \in table : ~(r.name = name /\ r.version = version)}

\* INSERT OR REPLACE under PRIMARY KEY (name, version)
\* Faulty variant: INSERT OR IGNORE, which keeps the row already there.
InsertOrIgnore(table, row) ==
    IF SelectRows(table, row.name, row.version) # {} THEN table
    ELSE table \cup {row}
InsertOrReplace(table, row) ==
    DeleteRows(table, row.name, row.version) \cup {row}

\* row.file_path.exists()
\* Faulty variant: the existence check is dropped.
PathExistsAlways(disk, p) == TRUE
PathExists(disk, p) == p \in disk

\* remove_package: the row, then the file at the conventional path
\* Faulty variant: the DELETE has no WHERE clause.
RemoveRowsAll(table, name, version) == {}
RemoveRows(table, name, version) == DeleteRows(table, name, version)
RemoveFiles(disk, name, version) ==
    IF PathExists(disk, CachePath(name, version))
    THEN disk \ {CachePath(name, version)}
    ELSE disk

\* get_package: what it returns for the one matching row (the primary key
\* admits at most one)
GetPackageResult(table, disk, name, version, now) ==
    LET found == SelectRows(table, name, version) IN
    IF found = {} THEN None
    ELSE LET row == PackageOfRow(CHOOSE r \in found : TRUE, now) IN
         IF PathExists(disk, row.file_path) THEN row ELSE None

\* get_package: whether it takes the clean-up branch
IsStale(table, disk, name, version) ==
    LET found == SelectRows(table, name, version) IN
    /\ found # {}
    /\ ~PathExists(disk, (CHOOSE r \in found : TRUE).file_path)

\* clear_all: what the loop over fs::read_dir(&self.cache_dir) leaves
\* Faulty variant: the extension is not looked at.
ClearedFilesWholeDir(disk) == {p \in disk : ~InCacheDir(p)}
ClearedFiles(disk) == {p \in disk : ~(InCacheDir(p) /\ HasWhlExtension(p))}

\* PackageCache::new has opened cache.db
CacheInit ==
    /\ rows = {}
    /\ files = {CacheDbPath}
    /\ cacheLast = [op |-> "new"]

\* PackageCache::store_package
Store(package) ==
    /\ rows' = InsertOrReplace(rows, RowOf(package))
    /\ files' = files
    /\ cacheLast' =
         [op |-> "store", package |-> package,
          replaced |-> SelectRows(rows, package.name, package.version)
                           \notin {{}, {RowOf(package)}}]
    /\ UNCHANGED <<mirrorVars, secVars, pipeVars, sideVars>>

\* PackageCache::get_package
Lookup(name, version, now) ==
    LET stale == IsStale(rows, files, name, version) IN
    /\ rows' = IF stale THEN RemoveRows(rows, name, version) ELSE rows
    /\ files' = IF stale THEN RemoveFiles(files, name, version) ELSE files
    /\ cacheLast' =
         [op |-> "lookup", name |-> name, version |-> version,
          ret |-> GetPackageResult(rows, files, name, version, now),
          stale |-> stale,
          afterStore |-> /\ cacheLast.op = "store"
                         /\ cacheLast.package.name = name
                         /\ cacheLast.package.version = version]
    /\ UNCHANGED <<mirrorVars, secVars, pipeVars, sideVars>>

\* PackageCache::remove_package: the DELETE and fs::remove_file each end in
\* `?`, so a failed DELETE returns before the file is looked at
RemovePackage(name, version, db_ok, fs_ok) ==
    LET file_there == PathExists(files, CachePath(name, version)) IN
    /\ rows' = IF db_ok THEN RemoveRows(rows, name, version) ELSE rows
    /\ files' = IF db_ok /\ fs_ok THEN RemoveFiles(files, name, version) ELSE files
    /\ cacheLast' =
         [op |-> "remove", name |-> name, version |-> version,
          db_ok |-> db_ok, fs_ok |-> fs_ok,
          ret |-> IF db_ok /\ (file_there => fs_ok) THEN "Ok" ELSE "Err"]
    /\ UNCHANGED <<mirrorVars, secVars, pipeVars, sideVars>>

\* remove_package when the database and the file system do as they are told
Remove(name, version) == RemovePackage(name, version, TRUE, TRUE)

\* PackageCache::clear_all
ClearAll ==
    /\ rows' = {}
    /\ files' = ClearedFiles(files)
    /\ cacheLast' = [op |-> "clear_all", removed |-> files \ files']
    /\ UNCHANGED <<mirrorVars, secVars, pipeVars, sideVars>>

\* A file is written to disk by a download or by the user (outside this
\* code).
WriteArtifact(p) ==
    /\ p \notin files
    /\ files' = files \cup {p}
    /\ rows' = rows
    /\ cacheLast' = [op |-> "fs"]
    /\ UNCHANGED <<mirrorVars, secVars, pipeVars, sideVars>>

\* A file is deleted out-of-band.
DeleteArtifact(p) ==
    /\ p \in files
    /\ files' = files \ {p}
    /\ rows' = rows
    /\ cacheLast' = [op |-> "fs"]
    /\ UNCHANGED <<mirrorVars, secVars, pipeVars, sideVars>>

CacheNext ==
    \/ \E package \in Packages : Store(package)
    \/ \E n \in Names, v \in Versions, now \in {0} : Lookup(n, v, now)
    \/ \E n \in Names, v \in Versions : Remove(n, v)
    \/ ClearAll
    \/ \E p \in DiskPaths : WriteArtifact(p)
    \/ \E p \in DiskPaths : DeleteArtifact(p)

\* The cache when the DELETE or fs::remove_file of remove_package can fail.
CacheFaultNext ==
    \/ \E package \in Packages : Store(package)
    \/ \E n \in Names, v \in Versions, db_ok \in BOOLEAN, fs_ok \in BOOLEAN :
           RemovePackage(n, v, db_ok, fs_ok)
    \/ \E p \in ArtifactPaths : WriteArtifact(p)
    \/ \E p \in ArtifactPaths : DeleteArtifact(p)

(***************************************************************************)
(* Mirror Registry: modules/mirrors.rs                                     *)
(***************************************************************************)
MirrorNames == {"pypi", "corp"}
MirrorUrls == {"https://mirror.example/simple/"}

\* The built-in mirror of MirrorManager::new
BuiltinMirror ==
    [name |-> "pypi", url |-> "https://pypi.org/simple/", is_default |-> TRUE,
     last_tested |-> None, is_active |-> TRUE]

\* mirrors.json: missing, unparsable, or the JSON of a mirror list
ConfigAbsent == [kind |-> "absent"]
ConfigCorrupt == [kind |-> "corrupt"]

\* serde_json::to_string_pretty(&self.mirrors)
MirrorsToJson(list) == [kind |-> "json", value |-> list]

\* MirrorManager::new: the list it loads from the configuration file
LoadMirrors(file) ==
    IF file.kind # "absent"
    THEN IF file.kind = "json" THEN file.value ELSE <<BuiltinMirror>>
    ELSE <<BuiltinMirror>>

\* add_mirror: `for mirror in &mut self.mirrors { mirror.is_default = false }`
\* Faulty variant: the loop is missing.
ClearDefaultsNone(list) == list
ClearDefaults(list) ==
    [i \in DOMAIN list |-> [list[i] EXCEPT !.is_default = FALSE]]

\* add_mirror: the list after the push
AddedMirrors(list, name, url, set_default) ==
    Append(IF set_default THEN ClearDefaults(list) ELSE list,
           [name |-> name, url |-> url, is_default |-> set_default,
            last_tested |-> None, is_active |-> TRUE])

\* remove_mirror: self.mirrors.retain(|mirror| mirror.name != name)
Retain(list, name) == SelectSeq(list, LAMBDA m : m.name # name)

\* get_default_mirror: the first mirror that is default and active
\* Faulty variant: is_active is not looked at.
get_default_mirrorAnyState(list) ==
    LET hits == SelectSeq(list, LAMBDA m : m.is_default) IN
    IF hits = <<>> THEN None ELSE hits[1]
get_default_mirror(list) ==
    LET hits == SelectSeq(list, LAMBDA m : m.is_default /\ m.is_active) IN
    IF hits = <<>> THEN None ELSE hits[1]

\* save_config: fs::write either writes the file, fails before touching it,
\* or fails after truncating it.
SaveOutcomes == {"ok", "unchanged", "truncated"}
SavedConfig(file, list, outcome) ==
    CASE outcome = "ok" -> MirrorsToJson(list)
      [] outcome = "unchanged" -> file
      [] outcome = "truncated" -> ConfigCorrupt

MirrorInit ==
    /\ config \in {ConfigAbsent, ConfigCorrupt}
    /\ mirrors = LoadMirrors(config)
    /\ mirrorLast = [op |-> "new"]

\* MirrorManager::new in a later invocation
MirrorNew ==
    /\ mirrors' = LoadMirrors(config)
    /\ config' = config
    /\ mirrorLast' = [op |-> "new"]
    /\ UNCHANGED <<cacheVars, secVars, pipeVars, sideVars>>

\* MirrorManager::add_mirror
AddMirror(name, url, set_default, outcome) ==
    /\ Len(mirrors) < MaxMirrors
    /\ mirrors' = AddedMirrors(mirrors, name, url, set_default)
    /\ config' = SavedConfig(config, mirrors', outcome)
    /\ mirrorLast' =
         [op |-> "add", name |-> name, set_default |-> set_default,
          ok |-> outcome = "ok",
          afterDefaultAdd |-> mirrorLast.op = "add" /\ mirrorLast.set_default]
    /\ UNCHANGED <<cacheVars, secVars, pipeVars, sideVars>>

\* MirrorManager::remove_mirror
RemoveMirror(name, outcome) ==
    /\ mirrors' = Retain(mirrors, name)
    /\ config' = SavedConfig(config, mirrors', outcome)
    /\ mirrorLast' = [op |-> "remove", name |-> name, ok |-> outcome = "ok"]
    /\ UNCHANGED <<cacheVars, secVars, pipeVars, sideVars>>

\* The answers of the HEAD request of test_mirror: a response with a
\* success status, one with another status, or no response
Probes == {"success", "non_success", "connect_error", "timeout"}

\* test_mirror: Err for an unknown name, else Ok(is_success) or Ok(false)
\* Faulty variant: a request that fails is handed on as an error.
test_mirrorPropagate(list, name, probe) ==
    IF \A i \in DOMAIN list : list[i].name # name
    THEN [ok |-> FALSE, err |-> "Mirror not found"]
    ELSE IF probe \in {"connect_error", "timeout"}
         THEN [ok |-> FALSE, err |-> probe]
         ELSE [ok |-> TRUE, value |-> probe = "success"]
test_mirror(list, name, probe) ==
    IF \A i \in DOMAIN list : list[i].name # name
    THEN [ok |-> FALSE, err |-> "Mirror not found"]
    ELSE IF probe \in {"success", "non_success"}
         THEN [ok |-> TRUE, value |-> probe = "success"]
         ELSE [ok |-> TRUE, value |-> FALSE]

\* MirrorManager::test_mirror
TestMirror(name, probe) ==
    /\ mirrorLast' = [op |-> "test", name |-> name, probe |-> probe,
                      ret |-> test_mirror(mirrors, name, probe)]
    /\ UNCHANGED <<mirrors, config>>
    /\ UNCHANGED <<cacheVars, secVars, pipeVars, sideVars>>

\* MirrorManager::get_default_mirror
GetDefaultMirror ==
    /\ mirrorLast' = [op |-> "default", ret |-> get_default_mirror(mirrors)]
    /\ UNCHANGED <<mirrors, config>>
    /\ UNCHANGED <<cacheVars, secVars, pipeVars, sideVars>>

\* The mirror lists a mirrors.json can hold, written by sa or by hand
RECURSIVE MirrorLists(_)
MirrorLists(n) ==
    IF n = 0 THEN {<<>>}
    ELSE MirrorLists(n - 1) \cup
         {Append(l, [name |-> nm, url |-> "https://" \o nm \o ".example/simple/",
                     is_default |-> d, last_tested |-> None, is_active |-> a]) :
            l \in MirrorLists(n - 1), nm \in MirrorNames, d \in BOOLEAN, a \in BOOLEAN}

\* A registry loaded from any such file
AnyRegistry ==
    /\ config \in {MirrorsToJson(l) : l \in MirrorLists(MaxMirrors)}
    /\ mirrors = LoadMirrors(config)
    /\ mirrorLast = [op |-> "new"]

\* The queries of a registry: they take &self
QueryNext ==
    \/ GetDefaultMirror
    \/ \E n \in MirrorNames, probe \in Probes : TestMirror(n, probe)

MirrorNext ==
    \/ MirrorNew
    \/ \E n \in MirrorNames, u \in MirrorUrls, d \in BOOLEAN, o \in SaveOutcomes :
           AddMirror(n, u, d, o)
    \/ \E n \in MirrorNames, o \in SaveOutcomes : RemoveMirror(n, o)

(***************************************************************************)
(* Vulnerability Index: modules/security.rs                                *)
(***************************************************************************)
\* Version and range strings are sequences of characters, so that prefixes
\* and the byte-wise ordering of Rust's str can be computed.
AsciiOrder ==
    <<"*", ".", "0", "1", "2", "5", "<", "=", ">", "a", "e", "l", "s", "t">>
CharCode(c) == CHOOSE i \in DOMAIN AsciiOrder : AsciiOrder[i] = c

\* <str as Ord>::cmp: lexicographic, a proper prefix is less
RECURSIVE StrLess(_, _)
StrLess(a, b) ==
    IF b = <<>> THEN FALSE
    ELSE IF a = <<>> THEN TRUE
    ELSE IF CharCode(Head(a)) # CharCode(Head(b))
         THEN CharCode(Head(a)) < CharCode(Head(b))
         ELSE StrLess(Tail(a), Tail(b))

StrLessEq(a, b) == a = b \/ StrLess(a, b)

\* str::starts_with
StartsWith(s, prefix) ==
    /\ Len(s) >= Len(prefix)
    /\ SubSeq(s, 1, Len(prefix)) = prefix

\* &range[n..]
Slice(s, n) == SubSeq(s, n + 1, Len(s))

\* SecurityScanner::version_matches
\* Faulty variant: the one-character operators are tried first.
version_matchesShortFirst(version, range) ==
    IF range = <<"*">> THEN TRUE
    ELSE IF StartsWith(range, <<"<">>) THEN StrLess(version, Slice(range, 1))
    ELSE IF StartsWith(range, <<">">>) THEN StrLess(Slice(range, 1), version)
    ELSE version = range
version_matches(version, range) ==
    IF range = <<"*">> THEN TRUE
    ELSE IF StartsWith(range, <<">", "=">>) THEN StrLessEq(Slice(range, 2), version)
    ELSE IF StartsWith(range, <<"<", "=">>) THEN StrLessEq(version, Slice(range, 2))
    ELSE IF StartsWith(range, <<"<">>) THEN StrLess(version, Slice(range, 1))
    ELSE IF StartsWith(range, <<">">>) THEN StrLess(Slice(range, 1), version)
    ELSE version = range

\* SecurityScanner::scan_package
\* Faulty variant: the version range is not looked at.
scan_packageAnyVersion(index, package_name, version) ==
    SelectSeq(index, LAMBDA vuln : vuln.package = package_name)
scan_package(index, package_name, version) ==
    SelectSeq(index, LAMBDA vuln :
        vuln.package = package_name /\ version_matches(version, vuln.version_range))

\* struct SecurityVulnerability
SecurityVulnerability(id, package, range, severity, description, published_at) ==
    [id |-> id, package |-> package, version_range |-> range,
     severity |-> severity, description |-> description,
     fixed_version |-> None, published_at |-> published_at]

\* JSON values (serde_json::Value) of the advisory feed
JsonNull == [t |-> "null"]
JsonString(s) == [t |-> "string", s |-> s]
JsonArray(items) == [t |-> "array", items |-> items]
JsonObject(members) == [t |-> "object", members |-> members]
Member(key, value) == [key |-> key, value |-> value]

\* Map::get: the member's value, or nothing
JsonGet(object, key) ==
    LET hits == SelectSeq(object.members, LAMBDA m : m.key = key) IN
    IF hits = <<>> THEN JsonNull ELSE hits[Len(hits)].value

\* .and_then(|v| v.as_str()).unwrap_or(default)
AsStrOr(value, default) == IF value.t = "string" THEN value.s ELSE default

\* .and_then(|v| v.as_array()).and_then(|arr| arr.first())
FirstOfArray(value) ==
    IF value.t = "array" /\ value.items # <<>> THEN value.items[1] ELSE JsonNull

\* The SecurityVulnerability built from one advisory object of the feed
ParseVulnerability(package_name, vuln_obj, now) ==
    SecurityVulnerability(
        AsStrOr(JsonGet(vuln_obj, "id"), "unknown"),
        package_name,
        AsStrOr(FirstOfArray(JsonGet(vuln_obj, "specs")), <<"*">>),
        "medium",
        AsStrOr(JsonGet(vuln_obj, "advisory"), "No description available"),
        now)

\* `for vuln in vuln_array`: the advisories that are objects
RECURSIVE ParseVulnArray(_, _, _)
ParseVulnArray(package_name, items, now) ==
    IF items = <<>> THEN <<>>
    ELSE (IF Head(items).t = "object"
          THEN <<ParseVulnerability(package_name, Head(items), now)>>
          ELSE <<>>)
         \o ParseVulnArray(package_name, Tail(items), now)

\* `for (package_name, vulns) in packages`: the members that are arrays
RECURSIVE ParsePackages(_, _)
ParsePackages(members, now) ==
    IF members = <<>> THEN <<>>
    ELSE (IF Head(members).value.t = "array"
          THEN ParseVulnArray(Head(members).key, Head(members).value.items, now)
          ELSE <<>>)
         \o ParsePackages(Tail(members), now)

\* update_vulnerability_db: the list it builds from the response body
ParseFeed(data, now) ==
    IF data.t = "object" THEN ParsePackages(data.members, now) ELSE <<>>

\* vulnerabilities.json: missing, unparsable, or the JSON of an advisory list
DbAbsent == [kind |-> "absent"]
DbCorrupt == [kind |-> "corrupt"]
DbToJson(list) == [kind |-> "json", value |-> list]

\* SecurityScanner::new: the list it loads
LoadVulnerabilities(file) ==
    IF file.kind # "absent"
    THEN IF file.kind = "json" THEN file.value ELSE <<>>
    ELSE <<>>

\* An index persisted by an earlier run, holding a critical advisory.
PersistedIndex ==
    <<SecurityVulnerability("CVE-1", "bad-pkg", <<"*">>, "critical",
                            "remote code execution", 0)>>

\* What the GET of the advisory feed can come to.
Advisory(id, spec, text) ==
    JsonObject(<<Member("id", JsonString(id)),
                 Member("specs", JsonArray(<<JsonString(spec)>>)),
                 Member("advisory", JsonString(text))>>)

Feeds ==
    {JsonObject(<<Member("pkg", JsonArray(<<Advisory("pyup-1", <<">", "=", "1", ".", "5">>, "xss")>>))>>),
     JsonObject(<<Member("bad-pkg", JsonString("none")),
                  Member("pkg", JsonArray(<<JsonObject(<<>>), JsonString("x"),
                                            Advisory("pyup-2", <<"<", "1", ".", "0">>, "dos")>>))>>),
     JsonArray(<<>>)}

Responses ==
    {[kind |-> "network_error"], [kind |-> "status", success |-> FALSE],
     [kind |-> "malformed", success |-> TRUE]}
        \cup {[kind |-> "json", success |-> TRUE, data |-> d] : d \in Feeds}

\* response.json() yields a value
HasJson(response) == response.kind = "json"

\* update_vulnerability_db reaches the body of `if response.status().is_success()`
\* and parses the payload
Replaces(response) == response.kind # "network_error" /\ response.success /\ HasJson(response)

\* update_vulnerability_db: Ok(()) or Err
UpdateReturnsOk(response, outcome) ==
    IF response.kind = "network_error" THEN FALSE
    ELSE IF ~response.success THEN TRUE
    ELSE IF ~HasJson(response) THEN FALSE
    ELSE outcome = "ok"

\* fs::write(&self.db_path, json_content)
WrittenDb(file, list, outcome) ==
    CASE outcome = "ok" -> DbToJson(list)
      [] outcome = "unchanged" -> file
      [] outcome = "truncated" -> DbCorrupt

SecInit ==
    /\ db_file \in {DbAbsent, DbToJson(PersistedIndex)}
    /\ vulnerability_db = LoadVulnerabilities(db_file)
    /\ secLast = [op |-> "new"]

\* SecurityScanner::new in a later invocation
SecNew ==
    /\ vulnerability_db' = LoadVulnerabilities(db_file)
    /\ db_file' = db_file
    /\ secLast' = [op |-> "new"]
    /\ UNCHANGED <<cacheVars, mirrorVars, pipeVars, sideVars>>

\* SecurityScanner::update_vulnerability_db
UpdateVulnerabilityDb(response, now, outcome) ==
    /\ vulnerability_db' =
         IF Replaces(response) THEN ParseFeed(response.data, now)
         ELSE vulnerability_db
    /\ db_file' =
         IF Replaces(response) THEN WrittenDb(db_file, vulnerability_db', outcome)
         ELSE db_file
    /\ secLast' =
         [op |-> "update", response |-> response,
          written |-> Replaces(response) /\ outcome = "ok",
          ok |-> UpdateReturnsOk(response, outcome)]
    /\ UNCHANGED <<cacheVars, mirrorVars, pipeVars, sideVars>>

\* SecurityScanner::scan_package
Scan(package_name, version) ==
    /\ UNCHANGED <<vulnerability_db, db_file>>
    /\ secLast' =
         [op |-> "scan", package |-> package_name, version |-> version,
          ret |-> scan_package(vulnerability_db, package_name, version)]
    /\ UNCHANGED <<cacheVars, mirrorVars, pipeVars, sideVars>>

ScanPackages == {"pkg", "bad-pkg"}
ScanVersions == {<<"2", ".", "0">>, <<"0", ".", "5">>}

SecNext ==
    \/ SecNew
    \/ \E r \in Responses, now \in 1..MaxTime, o \in SaveOutcomes :
           UpdateVulnerabilityDb(r, now, o)
    \/ \E p \in ScanPackages, v \in ScanVersions : Scan(p, v)

(***************************************************************************)
(* Acquisition pipeline: install_package_with_cache (modules/cache.rs)     *)
(***************************************************************************)
\* The packages asked for: "pkg" occurs inside the name "bad-pkg"
RequestPackages == {"pkg", "bad-pkg"}

\* The characters of the strings that occur in requirements.txt
Chars(str) ==
    CASE str = "" -> <<>>
      [] str = "pkg" -> <<"p", "k", "g">>
      [] str = "bad-pkg" -> <<"b", "a", "d", "-", "p", "k", "g">>

\* str::contains on one line
IsSubstring(needle, hay) ==
    \E i \in 0..(Len(hay) - Len(needle)) :
        SubSeq(hay, i + 1, i + Len(needle)) = needle

\* requirements.contains(_package): the file is held as its lines, and a
\* package name holds no line break
Contains(lines, package) ==
    \E i \in DOMAIN lines : IsSubstring(Chars(package), Chars(lines[i]))

\* requirements.push_str(&format!("\n{}", _package))
PushLine(lines, package) == Append(lines, package)

\* std::fs::read_to_string(req_path).unwrap_or_default() of a missing file
EmptyText == <<"">>

\* ensure_venv_exists: `python3 -m venv .sa_env` succeeds, or fails leaving
\* no directory, or fails leaving a partial one
VenvOutcomes == {"created", "failed", "failed_partial"}
\* .sa_env/bin/pip install: exit status 0, a non-zero status, or no process
PipOutcomes == {"success", "nonzero", "spawn_error"}

\* ensure_venv_exists returns Ok
\* Faulty variant: the exit status of `python3 -m venv` is not looked at.
EnsureVenvOkAlways(exists, venv_outcome) == TRUE
EnsureVenvOk(exists, venv_outcome) == exists \/ venv_outcome = "created"

\* The version a request resolves to before any metadata is fetched
Latest == <<"l", "a", "t", "e", "s", "t">>

\* A file that exists and that fs::read_to_string cannot read
ConfigUnreadable == [kind |-> "unreadable"]
DbUnreadable == [kind |-> "unreadable"]

\* MirrorManager::new: `fs::read_to_string(&config_path)?` is the one
\* failure that depends on the file
MirrorManagerNew(file) ==
    IF file.kind = "unreadable" THEN [ok |-> FALSE, mirrors |-> <<>>]
    ELSE [ok |-> TRUE, mirrors |-> LoadMirrors(file)]

\* SecurityScanner::new: `fs::read_to_string(&db_path)?` fails;
\* a file that does not parse gives the empty index
SecurityScannerNew(file) ==
    IF file.kind = "unreadable" THEN [ok |-> FALSE, db |-> <<>>]
    ELSE [ok |-> TRUE, db |-> LoadVulnerabilities(file)]

\* No `sa add` invocation has run yet.
NoBatch ==
    [state |-> "idle", packages |-> <<>>, pending |-> <<>>,
     skip_security |-> FALSE, all_success |-> TRUE, result |-> "none",
     exit_code |-> 0, cache_ok |-> TRUE]

PipeInit ==
    /\ requirements = EmptyText
    /\ venv = FALSE
    /\ site_packages = {}
    /\ history = <<>>
    /\ batch = NoBatch

\* install_package_with_cache: _cache, _mirror_manager, _security_scanner and
\* _skip_security are not used
InstallPackageWithCache(package, skip_security, write_ok, venv_outcome, pip_outcome) ==
    LET listed == Contains(requirements, package)
        wrote == ~listed /\ write_ok
        reached_venv == listed \/ write_ok
        venv_ok == reached_venv /\ EnsureVenvOk(venv, venv_outcome)
        pip == IF venv_ok THEN pip_outcome ELSE "not_run"
    IN
    /\ Len(history) < MaxRequests
    /\ requirements' = IF wrote THEN PushLine(requirements, package) ELSE requirements
    /\ venv' = IF reached_venv /\ ~venv
               THEN venv_outcome \in {"created", "failed_partial"}
               ELSE venv
    /\ site_packages' = IF pip = "success" THEN site_packages \cup {package}
                        ELSE site_packages
    /\ UNCHANGED <<cacheVars, mirrorVars, secVars, sideVars>>
    /\ history' = Append(history,
         [package |-> package, skip_security |-> skip_security,
          ret |-> IF pip = "success" THEN "Ok" ELSE "Err",
          pip |-> pip,
          wrote |-> wrote,
          venv_step |-> IF ~reached_venv THEN "not_reached"
                        ELSE IF venv THEN "existed" ELSE venv_outcome,
          cached |-> \E r \in rows' : r.name = package])

\* The package lists of an `sa add` invocation
RECURSIVE SeqsUpTo(_, _)
SeqsUpTo(S, n) ==
    IF n = 0 THEN {<<>>}
    ELSE SeqsUpTo(S, n - 1)
             \cup {Append(q, x) : q \in SeqsUpTo(S, n - 1), x \in S}

Batches == SeqsUpTo(RequestPackages, MaxRequests) \ {<<>>}

\* main: `let _ = run_sa(cli).await;` drops the result, and the process ends
\* with status 0
ExitCode(result) == 0

\* run_sa, Commands::Add: the three handles are constructed, each failure
\* ending the process with process::exit(1); then all_success = true
AddStart(packages, skip_security, cache_ok) ==
    LET manager == MirrorManagerNew(config)
        scanner == SecurityScannerNew(db_file)
        opened == cache_ok /\ manager.ok /\ scanner.ok
    IN
    /\ batch.state # "running"
    /\ Len(history) + Len(packages) <= MaxRequests
    /\ batch' = [state |-> IF opened THEN "running" ELSE "aborted",
                 packages |-> packages, pending |-> packages,
                 skip_security |-> skip_security, all_success |-> TRUE,
                 result |-> "none", exit_code |-> IF opened THEN 0 ELSE 1,
                 cache_ok |-> cache_ok]
    /\ mirrors' = IF cache_ok THEN manager.mirrors ELSE <<>>
    /\ vulnerability_db' = IF cache_ok /\ manager.ok THEN scanner.db ELSE <<>>
    /\ UNCHANGED <<cacheVars, config, mirrorLast, db_file, secLast, sideVars,
                   requirements, venv, site_packages, history>>

\* run_sa, Commands::Add: one turn of `for pkg in package`
AddStep(write_ok, venv_outcome, pip_outcome) ==
    /\ batch.state = "running"
    /\ batch.pending # <<>>
    /\ InstallPackageWithCache(Head(batch.pending), batch.skip_security,
                               write_ok, venv_outcome, pip_outcome)
    /\ batch' = [batch EXCEPT
                   !.pending = Tail(batch.pending),
                   !.all_success = batch.all_success
                                     /\ history'[Len(history')].ret = "Ok"]

\* run_sa, Commands::Add: the result after the loop, and main's exit
AddFinish ==
    /\ batch.state = "running"
    /\ batch.pending = <<>>
    /\ batch' = [batch EXCEPT
                   !.state = "done",
                   !.result = IF batch.all_success THEN "Ok" ELSE "Err",
                   !.exit_code = ExitCode(IF batch.all_success THEN "Ok" ELSE "Err")]
    /\ UNCHANGED <<cacheVars, mirrorVars, secVars, sideVars,
                   requirements, venv, site_packages, history>>

PipeNext ==
    \/ \E packages \in Batches, skip \in BOOLEAN, cache_ok \in BOOLEAN :
           AddStart(packages, skip, cache_ok)
    \/ \E w \in BOOLEAN, vo \in VenvOutcomes, po \in PipOutcomes : AddStep(w, vo, po)
    \/ AddFinish

(***************************************************************************)
(* Concurrent environment creation: ensure_venv_exists (modules/cache.rs)  *)
(***************************************************************************)
Procs == 1..MaxProcs

EnsureInit ==
    /\ ensure = [p \in Procs |-> [pc |-> "idle", saw_ready |-> FALSE]]
    /\ venvReady = FALSE

\* ensure_venv_exists: `if !std::path::Path::new(".sa_env").exists()`, and
\* the spawn of `python3 -m venv .sa_env` when the directory is missing
EnsureCheck(p) ==
    /\ ensure[p].pc = "idle"
    /\ ensure' = [ensure EXCEPT ![p] =
                    IF venv THEN [pc |-> "Ok", saw_ready |-> venvReady]
                    ELSE [pc |-> "creating", saw_ready |-> FALSE]]
    /\ UNCHANGED <<venv, venvReady>>
    /\ UNCHANGED <<cacheVars, mirrorVars, secVars, requirements, site_packages,
                   history, batch, refreshVars, peerVars, dockerVars, matchVars>>

\* `python3 -m venv .sa_env` makes the directory before it fills it
VenvMkdir(p) ==
    /\ ensure[p].pc = "creating"
    /\ ensure' = [ensure EXCEPT ![p].pc = "building"]
    /\ venv' = TRUE
    /\ UNCHANGED venvReady
    /\ UNCHANGED <<cacheVars, mirrorVars, secVars, requirements, site_packages,
                   history, batch, refreshVars, peerVars, dockerVars, matchVars>>

\* `.status()?` and `if !status.success()`: the child has ended
VenvExit(p, success) ==
    /\ ensure[p].pc \in {"creating", "building"}
    /\ success => ensure[p].pc = "building"
    /\ ensure' = [ensure EXCEPT ![p] =
                    IF success THEN [pc |-> "Ok", saw_ready |-> TRUE]
                    ELSE [pc |-> "Err", saw_ready |-> FALSE]]
    /\ venvReady' = (venvReady \/ success)
    /\ UNCHANGED venv
    /\ UNCHANGED <<cacheVars, mirrorVars, secVars, requirements, site_packages,
                   history, batch, refreshVars, peerVars, dockerVars, matchVars>>

EnsureNext ==
    \/ \E p \in Procs : EnsureCheck(p)
    \/ \E p \in Procs : VenvMkdir(p)
    \/ \E p \in Procs, success \in BOOLEAN : VenvExit(p, success)

(***************************************************************************)
(* A refresh of the index beside a second handle (modules/security.rs)     *)
(***************************************************************************)
RefreshInit ==
    /\ refresh = [pc |-> "idle", old |-> LoadVulnerabilities(db_file),
                  new |-> LoadVulnerabilities(db_file)]
    /\ reader = [op |-> "none", db |-> <<>>]

\* update_vulnerability_db up to the point where fs::write has opened
\* vulnerabilities.json, which truncates it
RefreshBegin(response, now) ==
    /\ refresh.pc = "idle"
    /\ Replaces(response)
    /\ vulnerability_db' = ParseFeed(response.data, now)
    /\ db_file' = DbCorrupt
    /\ refresh' = [pc |-> "writing", old |-> LoadVulnerabilities(db_file),
                   new |-> vulnerability_db']
    /\ UNCHANGED <<secLast, reader>>
    /\ UNCHANGED <<cacheVars, mirrorVars, pipeVars, ensureVars, peerVars,
                   dockerVars, matchVars>>

\* fs::write has written the serialized index, and the refresh returns
RefreshEnd ==
    /\ refresh.pc = "writing"
    /\ db_file' = DbToJson(vulnerability_db)
    /\ refresh' = [refresh EXCEPT !.pc = "done"]
    /\ secLast' = [op |-> "update", written |-> TRUE, ok |-> TRUE]
    /\ UNCHANGED <<vulnerability_db, reader>>
    /\ UNCHANGED <<cacheVars, mirrorVars, pipeVars, ensureVars, peerVars,
                   dockerVars, matchVars>>

\* SecurityScanner::new in the other process
ReaderNew ==
    /\ reader' = [op |-> "new", db |-> LoadVulnerabilities(db_file)]
    /\ UNCHANGED <<refresh, secVars>>
    /\ UNCHANGED <<cacheVars, mirrorVars, pipeVars, ensureVars, peerVars,
                   dockerVars, matchVars>>

\* SecurityScanner::scan_package in the other process
ReaderScan(package_name, version) ==
    /\ reader.op # "none"
    /\ reader' = [op |-> "scan", db |-> reader.db, package |-> package_name,
                  version |-> version,
                  ret |-> scan_package(reader.db, package_name, version)]
    /\ UNCHANGED <<refresh, secVars>>
    /\ UNCHANGED <<cacheVars, mirrorVars, pipeVars, ensureVars, peerVars,
                   dockerVars, matchVars>>

RefreshNext ==
    \/ \E r \in Responses, now \in 1..MaxTime : RefreshBegin(r, now)
    \/ RefreshEnd
    \/ ReaderNew
    \/ \E pkg \in ScanPackages, v \in ScanVersions : ReaderScan(pkg, v)

(***************************************************************************)
(* Two registry handles over one mirrors.json (modules/mirrors.rs)         *)
(***************************************************************************)
PeerInit ==
    peer = [mirrors |-> LoadMirrors(config), base |-> LoadMirrors(config),
            last |-> [op |-> "new"]]

\* MirrorManager::new in the second process
PeerNew ==
    /\ peer' = [mirrors |-> LoadMirrors(config), base |-> LoadMirrors(config),
                last |-> [op |-> "new"]]
    /\ UNCHANGED mirrorVars
    /\ UNCHANGED <<cacheVars, secVars, pipeVars, ensureVars, refreshVars,
                   dockerVars, matchVars>>

\* MirrorManager::add_mirror on the second handle; save_config writes
PeerAdd(name, url, set_default) ==
    /\ peer.last.op = "new"
    /\ Len(peer.mirrors) < MaxMirrors
    /\ peer' = [peer EXCEPT
                  !.mirrors = AddedMirrors(peer.mirrors, name, url, set_default),
                  !.last = [op |-> "add", name |-> name]]
    /\ config' = SavedConfig(config, peer'.mirrors, "ok")
    /\ UNCHANGED <<mirrors, mirrorLast>>
    /\ UNCHANGED <<cacheVars, secVars, pipeVars, ensureVars, refreshVars,
                   dockerVars, matchVars>>

\* MirrorManager::remove_mirror on the second handle; save_config writes
PeerRemove(name) ==
    /\ peer.last.op = "new"
    /\ peer' = [peer EXCEPT
                  !.mirrors = Retain(peer.mirrors, name),
                  !.last = [op |-> "remove", name |-> name]]
    /\ config' = SavedConfig(config, peer'.mirrors, "ok")
    /\ UNCHANGED <<mirrors, mirrorLast>>
    /\ UNCHANGED <<cacheVars, secVars, pipeVars, ensureVars, refreshVars,
                   dockerVars, matchVars>>

\* The first handle's one operation: `sa mirror add`, `sa mirror remove`
FirstAdd(name, url, set_default) ==
    mirrorLast.op = "new" /\ AddMirror(name, url, set_default, "ok")
FirstRemove(name) ==
    mirrorLast.op = "new" /\ RemoveMirror(name, "ok")

\* The first handle performs one operation; the second process performs one
\* operation per invocation, at any time.
PeersNext ==
    \/ \E n \in MirrorNames, u \in MirrorUrls, d \in BOOLEAN : FirstAdd(n, u, d)
    \/ \E n \in MirrorNames : FirstRemove(n)
    \/ PeerNew
    \/ \E n \in MirrorNames, u \in MirrorUrls, d \in BOOLEAN : PeerAdd(n, u, d)
    \/ \E n \in MirrorNames : PeerRemove(n)

(***************************************************************************)
(* Container execution: execute_in_environment (modules/docker.rs)         *)
(***************************************************************************)
ImageNames == {"sa-env", "sa-test"}

DockerInit ==
    /\ containers = {}
    /\ images = {}
    /\ dockerLast = [op |-> "none", id |-> 0]
    /\ run = [pc |-> "idle", n |-> 0, env |-> "", built |-> FALSE,
              remove_failed |-> FALSE, ret |-> "none"]

\* create_environment: the build stream ends, or yields an error and no
\* image is tagged
CreateEnvironment(name, built) ==
    /\ images' = IF built THEN images \cup {name} ELSE images
    /\ dockerLast' = [op |-> "create", id |-> dockerLast.id, image |-> name,
                      ret |-> IF built THEN "Ok" ELSE "Err"]
    /\ UNCHANGED containers
    /\ UNCHANGED <<cacheVars, mirrorVars, secVars, pipeVars, ensureVars,
                   refreshVars, peerVars, matchVars>>

\* format!("sa-exec-{}", uuid::Uuid::new_v4()): a name not used before
ContainerName(n) == <<"sa-exec", n>>

\* execute_in_environment: create_container, start_container and the log
\* stream return early on an error; remove_container is the last call
ExecuteInEnvironment(image, create_ok, start_ok, logs_ok, exit_code, remove_ok) ==
    LET id == dockerLast.id + 1
        created == image \in images /\ create_ok
        started == created /\ start_ok
        streamed == started /\ logs_ok
        removed == streamed /\ remove_ok
    IN
    /\ dockerLast.id < MaxExecs
    /\ containers' = IF created /\ ~removed
                     THEN containers \cup {ContainerName(id)}
                     ELSE containers
    /\ dockerLast' =
         [op |-> "exec", id |-> id, image |-> image, created |-> created,
          started |-> started, streamed |-> streamed,
          exit_code |-> IF started THEN exit_code ELSE -1,
          remove_ok |-> remove_ok,
          ret |-> IF removed THEN "Ok" ELSE "Err"]
    /\ UNCHANGED images
    /\ UNCHANGED <<cacheVars, mirrorVars, secVars, pipeVars, ensureVars,
                   refreshVars, peerVars, matchVars>>

\* The calls of a DockerManager outside `sa run`
Create(name, built) == CreateEnvironment(name, built) /\ UNCHANGED run
Execute(image, create_ok, start_ok, logs_ok, exit_code, remove_ok) ==
    /\ ExecuteInEnvironment(image, create_ok, start_ok, logs_ok, exit_code, remove_ok)
    /\ UNCHANGED run

DockerNext ==
    \/ \E name \in ImageNames, built \in BOOLEAN : Create(name, built)
    \/ \E image \in ImageNames, create_ok \in BOOLEAN, start_ok \in BOOLEAN,
          logs_ok \in BOOLEAN, exit_code \in {0, 1}, remove_ok \in BOOLEAN :
           Execute(image, create_ok, start_ok, logs_ok, exit_code, remove_ok)

\* format!("sa-temp-{}", uuid::Uuid::new_v4()): a name not used before
TempName(n) == "sa-temp-" \o ToString(n)

\* run_sa, Commands::Run with --docker: create_environment(..).await?
RunBuild(built) ==
    /\ run.pc \in {"idle", "returned"}
    /\ run.n < MaxRuns
    /\ CreateEnvironment(TempName(run.n + 1), built)
    /\ run' = [pc |-> IF built THEN "install" ELSE "returned", n |-> run.n + 1,
               env |-> TempName(run.n + 1), built |-> built,
               remove_failed |-> FALSE, ret |-> IF built THEN "none" ELSE "Err"]

\* run_sa, Commands::Run with --docker: the `pip install` container,
\* execute_in_environment(&env_name, &install_cmd).await?
RunInstall(create_ok, start_ok, logs_ok, exit_code, remove_ok) ==
    /\ run.pc = "install"
    /\ ExecuteInEnvironment(run.env, create_ok, start_ok, logs_ok, exit_code, remove_ok)
    /\ run' = IF dockerLast'.ret = "Ok" THEN [run EXCEPT !.pc = "script"]
              ELSE [run EXCEPT !.pc = "returned", !.ret = "Err"]

\* run_sa, Commands::Run with --docker: the `python <script>` container,
\* execute_in_environment(&env_name, &run_cmd).await?
RunScript(create_ok, start_ok, logs_ok, exit_code, remove_ok) ==
    /\ run.pc = "script"
    /\ ExecuteInEnvironment(run.env, create_ok, start_ok, logs_ok, exit_code, remove_ok)
    /\ run' = IF dockerLast'.ret = "Ok" THEN [run EXCEPT !.pc = "cleanup"]
              ELSE [run EXCEPT !.pc = "returned", !.ret = "Err"]

\* run_sa, Commands::Run with --docker: `let _ = ..remove_image(..).await`
RunCleanup(removed) ==
    /\ run.pc = "cleanup"
    /\ images' = IF removed THEN images \ {run.env} ELSE images
    /\ run' = [run EXCEPT !.pc = "returned", !.ret = "Ok",
                          !.remove_failed = ~removed]
    /\ UNCHANGED <<containers, dockerLast>>
    /\ UNCHANGED <<cacheVars, mirrorVars, secVars, pipeVars, ensureVars,
                   refreshVars, peerVars, matchVars>>

RunNext ==
    \/ \E built \in BOOLEAN : RunBuild(built)
    \/ \E create_ok \in BOOLEAN, start_ok \in BOOLEAN, logs_ok \in BOOLEAN,
          exit_code \in {0, 1}, remove_ok \in BOOLEAN :
           RunInstall(create_ok, start_ok, logs_ok, exit_code, remove_ok)
    \/ \E create_ok \in BOOLEAN, start_ok \in BOOLEAN, logs_ok \in BOOLEAN,
          exit_code \in {0, 1}, remove_ok \in BOOLEAN :
           RunScript(create_ok, start_ok, logs_ok, exit_code, remove_ok)
    \/ \E removed \in BOOLEAN : RunCleanup(removed)

(***************************************************************************)
(* Range matching on its own: version_matches (modules/security.rs)        *)
(***************************************************************************)
MatchVersions ==
    {<<"2", ".", "0">>, <<"1", ".", "5">>, <<"1", ".", "0">>, <<"0", ".", "5">>,
     <<"1", "0", ".", "0">>, <<"1", ".", "5", ".", "1">>, <<"2">>}
RangeOperators == {<<">", "=">>, <<"<", "=">>, <<"<">>, <<">">>, <<>>}
MatchRanges ==
    {op \o x : op \in RangeOperators, x \in MatchVersions}
        \cup {<<"*">>, <<"l", "a", "t", "e", "s", "t">>}

MatchInit == matchLast = [op |-> "none"]

Match(version, range) ==
    /\ matchLast' = [op |-> "match", version |-> version, range |-> range,
                     ret |-> version_matches(version, range)]
    /\ UNCHANGED graphLast
    /\ UNCHANGED <<cacheVars, mirrorVars, secVars, pipeVars, ensureVars,
                   refreshVars, peerVars, dockerVars>>

MatchNext == \E v \in MatchVersions, r \in MatchRanges : Match(v, r)

(***************************************************************************)
(* Dependency graphs: modules/visualize.rs                                 *)
(***************************************************************************)
GraphPackages == {"a", "b", "c"}

\* The dependency lists of one package: at most MaxDeps names, none twice
RECURSIVE DepLists(_)
DepLists(n) ==
    IF n = 0 THEN {<<>>}
    ELSE DepLists(n - 1) \cup
         {q \in {Append(l, x) : l \in DepLists(n - 1), x \in GraphPackages} :
            \A i, j \in DOMAIN q : i # j => q[i] # q[j]}

\* dependencies: &HashMap<String, Vec<String>>
DependencyMaps ==
    UNION {[D -> DepLists(MaxDeps)] : D \in SUBSET GraphPackages}

\* node_indices.get(name): the node of a package name, if it has one
HasNode(g, name) == \E i \in DOMAIN g.nodes : g.nodes[i] = name

\* add_dependencies_to_graph; visited holds the packages on the current path
\* (the insert at entry is undone by the remove at the end)
RECURSIVE add_dependencies_to_graph(_, _, _, _, _, _), AddEach(_, _, _, _, _, _)
add_dependencies_to_graph(g, parent, deps, all_dependencies, transitive, visited) ==
    IF parent \in visited THEN g
    ELSE AddEach(g, parent, deps, all_dependencies, transitive, visited \cup {parent})

\* `for dep in deps`: the node if it is new, the edge, the recursion
AddEach(g, parent, deps, all_dependencies, transitive, visited) ==
    IF deps = <<>> THEN g
    ELSE LET dep == Head(deps)
             g1 == [nodes |-> IF HasNode(g, dep) THEN g.nodes
                              ELSE Append(g.nodes, dep),
                    edges |-> Append(g.edges, <<parent, dep>>)]
             g2 == IF transitive /\ dep \in DOMAIN all_dependencies
                   THEN add_dependencies_to_graph(g1, dep, all_dependencies[dep],
                                                  all_dependencies, transitive, visited)
                   ELSE g1
         IN AddEach(g2, parent, Tail(deps), all_dependencies, transitive, visited)

\* DependencyVisualizer::create_dependency_graph
create_dependency_graph(package_name, dependencies, transitive) ==
    LET root == [nodes |-> <<package_name>>, edges |-> <<>>] IN
    IF package_name \in DOMAIN dependencies
    THEN add_dependencies_to_graph(root, package_name, dependencies[package_name],
                                   dependencies, transitive, {})
    ELSE root

GraphInit == graphLast = [op |-> "none"]

\* The arguments of one call, before the call
GraphInputs ==
    \E package_name \in GraphPackages, dependencies \in DependencyMaps,
       transitive \in BOOLEAN :
        graphLast = [op |-> "input", package_name |-> package_name,
                     dependencies |-> dependencies, transitive |-> transitive]

CreateDependencyGraph ==
    /\ graphLast.op = "input"
    /\ graphLast' = [op |-> "graph", package_name |-> graphLast.package_name,
                     dependencies |-> graphLast.dependencies,
                     transitive |-> graphLast.transitive,
                     graph |-> create_dependency_graph(graphLast.package_name,
                                                       graphLast.dependencies,
                                                       graphLast.transitive)]
    /\ UNCHANGED matchLast
    /\ UNCHANGED <<cacheVars, mirrorVars, secVars, pipeVars, ensureVars,
                   refreshVars, peerVars, dockerVars>>

GraphNext == CreateDependencyGraph

(***************************************************************************)
(* Specifications                                                          *)
(***************************************************************************)
vars ==
    <<rows, files, cacheLast, mirrors, config, mirrorLast,
      vulnerability_db, db_file, secLast,
      requirements, venv, site_packages, history, batch,
      ensure, venvReady, refresh, reader, peer,
      containers, images, dockerLast, run, matchLast, graphLast>>

\* A component that a specification leaves alone starts from its first run.
MirrorIdle == MirrorInit /\ config = ConfigAbsent
SecIdle == SecInit /\ db_file = DbAbsent

\* The components of the later sections, at rest.
SideIdle ==
    EnsureInit /\ RefreshInit /\ PeerInit /\ DockerInit /\ MatchInit /\ GraphInit

CacheSpecInit == CacheInit /\ MirrorIdle /\ SecIdle /\ PipeInit /\ SideIdle
CacheSpec == CacheSpecInit /\ [][CacheNext]_vars

MirrorSpecInit == CacheInit /\ MirrorInit /\ SecIdle /\ PipeInit /\ SideIdle
MirrorSpec == MirrorSpecInit /\ [][MirrorNext]_vars

SecuritySpecInit == CacheInit /\ MirrorIdle /\ SecInit /\ PipeInit /\ SideIdle
SecuritySpec == SecuritySpecInit /\ [][SecNext]_vars

CacheFaultSpec == CacheSpecInit /\ [][CacheFaultNext]_vars

QuerySpecInit == CacheInit /\ AnyRegistry /\ SecIdle /\ PipeInit /\ SideIdle
QuerySpec == QuerySpecInit /\ [][QueryNext]_vars

\* Processes that call ensure_venv_exists at the same time.
EnsureSpecInit == CacheInit /\ MirrorIdle /\ SecIdle /\ PipeInit /\ SideIdle
EnsureSpec == EnsureSpecInit /\ [][EnsureNext]_vars

\* One refresh of the index while another process loads and scans.
RefreshSpecInit == CacheInit /\ MirrorIdle /\ SecInit /\ PipeInit /\ SideIdle
RefreshSpec == RefreshSpecInit /\ [][RefreshNext]_vars

\* Two handles loaded from the same mirrors.json.
PeersSpecInit == CacheInit /\ MirrorInit /\ SecIdle /\ PipeInit /\ SideIdle
PeersSpec == PeersSpecInit /\ [][PeersNext]_vars

DockerSpecInit == CacheInit /\ MirrorIdle /\ SecIdle /\ PipeInit /\ SideIdle
DockerSpec == DockerSpecInit /\ [][DockerNext]_vars

RunSpecInit == CacheInit /\ MirrorIdle /\ SecIdle /\ PipeInit /\ SideIdle
RunSpec == RunSpecInit /\ [][RunNext]_vars

GraphSpecInit ==
    /\ CacheInit /\ MirrorIdle /\ SecIdle /\ PipeInit
    /\ EnsureInit /\ RefreshInit /\ PeerInit /\ DockerInit /\ MatchInit
    /\ GraphInputs
GraphSpec == GraphSpecInit /\ [][GraphNext]_vars

MatchSpecInit == CacheInit /\ MirrorIdle /\ SecIdle /\ PipeInit /\ SideIdle
MatchSpec == MatchSpecInit /\ [][MatchNext]_vars

\* mirrors.json and vulnerabilities.json as `sa add` finds them: missing,
\* written by an earlier invocation (the registry emptied by `sa mirror
\* remove pypi`, the index holding a critical advisory), unparsable or
\* unreadable.
StoresPersisted ==
    /\ config \in {ConfigAbsent, MirrorsToJson(Retain(<<BuiltinMirror>>, "pypi")),
                   ConfigCorrupt, ConfigUnreadable}
    /\ mirrors = MirrorManagerNew(config).mirrors
    /\ mirrorLast = [op |-> "new"]
    /\ db_file \in {DbAbsent, DbToJson(PersistedIndex), DbCorrupt, DbUnreadable}
    /\ vulnerability_db = SecurityScannerNew(db_file).db
    /\ secLast = [op |-> "new"]

\* The pipeline: `sa add` invocations against an empty cache and the
\* registry and index files found on disk.
Init == CacheInit /\ StoresPersisted /\ PipeInit /\ SideIdle
Next == PipeNext
Spec == Init /\ [][Next]_vars

(***************************************************************************)
(* Cache Store claims                                                      *)
(***************************************************************************)
\* A row of the table with the key (name, version).
RowsWithKey(table, name, version) ==
    {r \in table : r.name = name /\ r.version = version}

\* C4: a lookup returns a record if and only if, when it is called, a row
\* with its key exists and a file exists at that row's artifact path; the
\* artifact file of a returned record exists.
C4_LookupIffRowAndFile ==
    [][cacheLast'.op = "lookup" =>
        LET hit == \E r \in RowsWithKey(rows, cacheLast'.name, cacheLast'.version) :
                       r.file_path \in files
        IN /\ (cacheLast'.ret # None) <=> hit
           /\ cacheLast'.ret # None => cacheLast'.ret.file_path \in files']_vars

\* C4 witness: a lookup that returned a record whose artifact file exists,
\* while another row of the table is stale.
C4_Witness ==
    /\ cacheLast.op = "lookup"
    /\ cacheLast.ret # None
    /\ cacheLast.ret.file_path \in files
    /\ \E r \in rows : r.file_path \notin files

LookupAfterStore ==
    /\ cacheLast.op = "store"
    /\ cacheLast'.op = "lookup"
    /\ cacheLast'.name = cacheLast.package.name
    /\ cacheLast'.version = cacheLast.package.version

\* C6 as claimed: store(record) followed immediately by lookup of its key
\* returns a record equal to the stored one in every field, whose artifact
\* file exists.
C6_RoundTripAlways ==
    [][LookupAfterStore =>
        /\ cacheLast'.ret = cacheLast.package
        /\ cacheLast'.ret.file_path \in files']_vars

\* C6 amended: the round trip holds for every record whose artifact path is
\* valid Unicode and has a file on disk when the lookup runs.
C6_RoundTripWhenFileExists ==
    [][(/\ LookupAfterStore
        /\ cacheLast.package.file_path # NonUtf8Path
        /\ cacheLast.package.file_path \in files)
       => /\ cacheLast'.ret = cacheLast.package
          /\ cacheLast'.ret.file_path \in files']_vars

\* C6 witness: a lookup right after the store of its key returned the record.
C6_Witness ==
    /\ cacheLast.op = "lookup"
    /\ cacheLast.afterStore
    /\ cacheLast.ret # None
    /\ cacheLast.ret.file_path \in files

(***************************************************************************)
(* Mirror Registry claims                                                  *)
(***************************************************************************)
\* The positions of the default mirrors of a list.
DefaultIndexes(list) == {i \in DOMAIN list : list[i].is_default}

\* C9: at most one mirror of the registry, and of the persisted list, is
\* default; an add with set_default leaves exactly one default mirror, the
\* one just added.
C9_AtMostOneDefault ==
    /\ Cardinality(DefaultIndexes(mirrors)) <= 1
    /\ config.kind = "json" => Cardinality(DefaultIndexes(config.value)) <= 1
    /\ (mirrorLast.op = "add" /\ mirrorLast.set_default) =>
           /\ DefaultIndexes(mirrors) = {Len(mirrors)}
           /\ mirrors[Len(mirrors)].name = mirrorLast.name

\* C9 witness: two adds with set_default in a row, after which the last
\* mirror of three is the only default.
C9_Witness ==
    /\ mirrorLast.op = "add"
    /\ mirrorLast.set_default
    /\ mirrorLast.afterDefaultAdd
    /\ Len(mirrors) = 3
    /\ DefaultIndexes(mirrors) = {3}

\* C10 as claimed: the registry always holds at least one mirror.
C10_RegistryNeverEmpty == Len(mirrors) >= 1

(***************************************************************************)
(* Vulnerability Index claims                                              *)
(***************************************************************************)
\* A refresh fails when the request fails, the status is not a success, the
\* body is not JSON or not a JSON object, or the new list cannot be persisted.
RefreshFailed(last) ==
    \/ last.response.kind \in {"network_error", "status", "malformed"}
    \/ last.response.data.t # "object"
    \/ ~last.written

\* C7 as claimed: a refresh that fails leaves the in-memory index and the
\* persisted file as they were, so every scan answers as before.
C7_FailedRefreshChangesNothing ==
    [][(secLast'.op = "update" /\ RefreshFailed(secLast')) =>
        /\ vulnerability_db' = vulnerability_db
        /\ db_file' = db_file
        /\ \A p \in ScanPackages, v \in ScanVersions :
               scan_package(vulnerability_db', p, v) = scan_package(vulnerability_db, p, v)]_vars

\* C8 as claimed: a refresh returns success only when it replaced the index
\* by the list of a freshly fetched feed and persisted it.
C8_SuccessOnlyWhenReplaced ==
    [][(secLast'.op = "update" /\ secLast'.ok) =>
        /\ secLast'.response.kind = "json"
        /\ \E now \in 1..MaxTime :
               vulnerability_db' = ParseFeed(secLast'.response.data, now)
        /\ db_file' = DbToJson(vulnerability_db')]_vars

(***************************************************************************)
(* Acquisition pipeline claims                                             *)
(***************************************************************************)
\* The terminal state of a request, from what install_package_with_cache did
\* and returned: it returns Ok only after pip exited with status 0, and Err
\* otherwise.
Outcome(request) ==
    IF request.ret = "Ok" THEN "Installed" ELSE "Install-Failed"

\* The index holds a critical advisory that covers the package.
HasCriticalAdvisory(package) ==
    LET found == scan_package(vulnerability_db, package, Latest) IN
    \E i \in DOMAIN found : found[i].severity = "critical"

\* C1 as claimed: a request without skip-security for a package with a
\* critical advisory ends Blocked-By-Security, with no install and no cache
\* write.
C1_CriticalAdvisoryBlocks ==
    \A i \in DOMAIN history :
        (~history[i].skip_security /\ HasCriticalAdvisory(history[i].package)) =>
            /\ Outcome(history[i]) = "Blocked-By-Security"
            /\ history[i].pip = "not_run"
            /\ ~history[i].cached

\* C2 as claimed: once a request for a package without advisories was
\* Installed, the next, identical request is Served-From-Cache and runs no
\* fetch.
C2_SecondRequestServedFromCache ==
    \A i \in DOMAIN history : \A j \in DOMAIN history :
        (/\ j = i + 1
         /\ history[j].package = history[i].package
         /\ history[j].skip_security = history[i].skip_security
         /\ scan_package(vulnerability_db, history[i].package, Latest) = <<>>
         /\ Outcome(history[i]) = "Installed") =>
            /\ Outcome(history[j]) = "Served-From-Cache"
            /\ history[j].pip = "not_run"

\* C3 as claimed: a request leaves a record of its package in the Cache Store
\* exactly when it reaches Installed.
C3_CacheWriteIffInstalled ==
    \A i \in DOMAIN history :
        history[i].cached <=> Outcome(history[i]) = "Installed"

\* C11 as claimed: a finished batch has attempted every one of its packages,
\* in order, and the invocation's overall result is a failure exactly when one
\* of them failed.
BatchRequests ==
    SubSeq(history, Len(history) - Len(batch.packages) + 1, Len(history))

C11_BatchResultIffAnyFailed ==
    batch.state = "done" =>
        /\ Len(history) >= Len(batch.packages)
        /\ \A i \in DOMAIN batch.packages :
               BatchRequests[i].package = batch.packages[i]
        /\ batch.exit_code # 0 <=>
               \E i \in DOMAIN batch.packages : BatchRequests[i].ret = "Err"

\* C12 as claimed: a request that misses the cache while the registry has no
\* mirror that is default and active ends No-Mirror-Available, with no
\* install and no cache write.
C12_NoMirrorAvailable ==
    \A i \in DOMAIN history :
        (/\ \A r \in rows : r.name # history[i].package
         /\ get_default_mirror(mirrors) = None) =>
            /\ Outcome(history[i]) = "No-Mirror-Available"
            /\ history[i].pip = "not_run"
            /\ ~history[i].cached

\* C13 as claimed: of the requests that ensure the environment at the same
\* time, one starts the creation, and none returns success while the
\* environment is still being built.
Creating == {p \in Procs : ensure[p].pc \in {"creating", "building"}}

C13_OneCreation ==
    /\ Cardinality(Creating) <= 1
    /\ \A p \in Procs :
           (ensure[p].pc = "Ok" /\ ~ensure[p].saw_ready) => Creating = {}

\* C14 as claimed: a scan that overlaps a refresh works on the complete old
\* index or the complete new one.
C14_ScanSeesOldOrNew ==
    reader.op = "scan" => reader.db \in {refresh.old, refresh.new}

\* C15 as claimed: when two handles loaded from the same mirrors.json each
\* add a mirror, or one adds and the other removes a different one, the file
\* afterwards shows both operations.
Reflects(last, list) ==
    IF last.op = "add" THEN \E i \in DOMAIN list : list[i].name = last.name
    ELSE \A i \in DOMAIN list : list[i].name # last.name

C15_BothOperationsPersist ==
    (/\ mirrorLast.op \in {"add", "remove"}
     /\ peer.last.op \in {"add", "remove"}
     /\ "add" \in {mirrorLast.op, peer.last.op}
     /\ mirrorLast.name # peer.last.name
     /\ peer.base = <<BuiltinMirror>>)
    => /\ config.kind = "json"
       /\ Reflects(mirrorLast, config.value)
       /\ Reflects(peer.last, config.value)

\* C16 as claimed: a container that execute_in_environment created is gone
\* when the call returns, whatever became of the start, the log stream and
\* the command, as long as the daemon would carry out the removal.
C16_ContainerRemoved ==
    (dockerLast.op = "exec" /\ dockerLast.created /\ dockerLast.remove_ok)
    => ContainerName(dockerLast.id) \notin containers

\* Lexicographic order of two strings, by their first difference
LexLess(a, b) ==
    \E k \in 0..Len(a) :
        /\ k <= Len(b)
        /\ SubSeq(a, 1, k) = SubSeq(b, 1, k)
        /\ \/ k = Len(a) /\ k < Len(b)
           \/ k < Len(a) /\ k < Len(b) /\ CharCode(a[k + 1]) < CharCode(b[k + 1])

\* The grammar of version ranges: `*`, an operator before a bound, or a
\* plain string that has to equal the version
HasForm(range, op) == \E x \in MatchVersions : range = op \o x
BoundOf(range, op) == CHOOSE x \in MatchVersions : range = op \o x
RangeCovers(range, v) ==
    IF range = <<"*">> THEN TRUE
    ELSE IF HasForm(range, <<">", "=">>) THEN ~LexLess(v, BoundOf(range, <<">", "=">>))
    ELSE IF HasForm(range, <<"<", "=">>) THEN ~LexLess(BoundOf(range, <<"<", "=">>), v)
    ELSE IF HasForm(range, <<">">>) THEN LexLess(BoundOf(range, <<">">>), v)
    ELSE IF HasForm(range, <<"<">>) THEN LexLess(v, BoundOf(range, <<"<">>))
    ELSE v = range

\* How often an advisory occurs in a list
Occurrences(list, a) == Cardinality({i \in DOMAIN list : list[i] = a})

\* C17: a scan returns the advisories of the index that name the package and
\* whose range covers the version, each as often as the index holds it and
\* nothing else, and leaves the index and its file as they were.
C17_ScanIsFilter ==
    [][secLast'.op = "scan" =>
        /\ vulnerability_db' = vulnerability_db
        /\ db_file' = db_file
        /\ \A i \in DOMAIN secLast'.ret :
               \E j \in DOMAIN vulnerability_db : secLast'.ret[i] = vulnerability_db[j]
        /\ \A j \in DOMAIN vulnerability_db :
               Occurrences(secLast'.ret, vulnerability_db[j]) =
                   IF /\ vulnerability_db[j].package = secLast'.package
                      /\ RangeCovers(vulnerability_db[j].version_range, secLast'.version)
                   THEN Occurrences(vulnerability_db, vulnerability_db[j])
                   ELSE 0]_vars

\* C17 witness: a scan returned some advisories of the index and left others
\* out.
C17_Witness ==
    /\ secLast.op = "scan"
    /\ secLast.ret # <<>>
    /\ Len(secLast.ret) < Len(vulnerability_db)

\* C18: version_matches answers as the grammar says, with strings compared
\* lexicographically: `*` covers everything, an operator compares the version
\* with its bound, any other range has to equal the version.
C18_RangeMatching ==
    matchLast.op = "match" =>
        (matchLast.ret <=> RangeCovers(matchLast.range, matchLast.version))

\* C18 witness: "10.0" was found to lie below "2.0".
C18_Witness ==
    /\ matchLast.op = "match"
    /\ matchLast.version = <<"1", "0", ".", "0">>
    /\ matchLast.range = <<"<", "2", ".", "0">>
    /\ matchLast.ret

\* At most one row per key
KeyUnique(table) ==
    \A n \in Names, v \in Versions : Cardinality(RowsWithKey(table, n, v)) <= 1

\* The rows of every key but the one given
OtherRows(table, name, version) ==
    {r \in table : ~(r.name = name /\ r.version = version)}

\* A store step leaves the rows of the other keys as they were.
StoreKeepsOtherRows ==
    cacheLast'.op = "store" =>
        OtherRows(rows', cacheLast'.package.name, cacheLast'.package.version)
            = OtherRows(rows, cacheLast'.package.name, cacheLast'.package.version)

\* C19 as claimed: there is at most one row per key; after a store the key's
\* row holds the record just stored in every field; a store leaves the rows
\* of other keys as they were.
C19_LastWriteWinsExact ==
    /\ [](/\ KeyUnique(rows)
          /\ cacheLast.op = "store" =>
                 \E r \in rows :
                     /\ RowsWithKey(rows, cacheLast.package.name,
                                    cacheLast.package.version) = {r}
                     /\ PackageOfRow(r, 0) = cacheLast.package)
    /\ [][StoreKeepsOtherRows]_vars

\* C19 amended: the same, except that an artifact path that is not valid
\* Unicode is held in its lossy conversion.
C19_LastWriteWins ==
    /\ [](/\ KeyUnique(rows)
          /\ cacheLast.op = "store" =>
                 \E r \in rows :
                     /\ RowsWithKey(rows, cacheLast.package.name,
                                    cacheLast.package.version) = {r}
                     /\ PackageOfRow(r, 0) =
                            [cacheLast.package EXCEPT
                               !.file_path =
                                   PathBufFrom(ToStringLossy(cacheLast.package.file_path))])
    /\ [][StoreKeepsOtherRows]_vars

\* C19 witness: a store replaced a different row of the same key.
C19_Witness ==
    /\ cacheLast.op = "store"
    /\ cacheLast.replaced

\* C20 as claimed: remove_package succeeds whatever exists and leaves neither
\* the row nor the file, and a failure of one deletion does not keep the
\* other from being carried out.
C20_RemoveIndependent ==
    cacheLast.op = "remove" =>
        LET no_row == RowsWithKey(rows, cacheLast.name, cacheLast.version) = {}
            no_file == CachePath(cacheLast.name, cacheLast.version) \notin files
        IN /\ (cacheLast.db_ok /\ cacheLast.fs_ok) =>
                  (cacheLast.ret = "Ok" /\ no_row /\ no_file)
           /\ cacheLast.db_ok => no_row
           /\ cacheLast.fs_ok => no_file

\* The files directly in the cache directory whose extension is whl
WheelsInCacheDir ==
    {CachePath(n, v) : n \in Names, v \in Versions} \cup {NonUtf8Path, LossyPath}

\* C21: a clear_all leaves no row and no whl file in the cache directory, and
\* every other file (cache.db, a stray file, a wheel outside the directory)
\* and the contents of vulnerabilities.json are as they were.
C21_ClearAllFrame ==
    [][cacheLast'.op = "clear_all" =>
        /\ rows' = {}
        /\ files' \cap WheelsInCacheDir = {}
        /\ files' \ WheelsInCacheDir = files \ WheelsInCacheDir
        /\ db_file' = db_file]_vars

\* C21 witness: a clear_all removed a wheel while cache.db, a stray file and
\* a wheel outside the cache directory were on disk.
C21_Witness ==
    /\ cacheLast.op = "clear_all"
    /\ cacheLast.removed # {}
    /\ {CacheDbPath, StrayPath, ExternalPath} \subseteq files

\* The positions of the mirrors that are default and active
Qualifying == {i \in DOMAIN mirrors : mirrors[i].is_default /\ mirrors[i].is_active}

\* C22: the default-mirror query returns the first mirror, in registry
\* order, that is default and active, returns absent exactly when there is
\* none, and leaves the registry and its file as they were.
C22_DefaultIsFirstQualifying ==
    [][mirrorLast'.op = "default" =>
        /\ mirrors' = mirrors
        /\ config' = config
        /\ (mirrorLast'.ret = None) <=> (Qualifying = {})
        /\ Qualifying # {} =>
               \E i \in Qualifying :
                   /\ \A j \in Qualifying : i <= j
                   /\ mirrorLast'.ret = mirrors[i]]_vars

\* C22 witness: the query passed over a default mirror that is inactive and
\* returned the first of two qualifying mirrors.
C22_Witness ==
    /\ mirrorLast.op = "default"
    /\ Cardinality(Qualifying) >= 2
    /\ mirrors[1].is_default /\ ~mirrors[1].is_active
    /\ mirrorLast.ret = mirrors[2]

\* C23: for a mirror of the registry, the test returns true exactly when the
\* probe ended with a success status and false, never an error, for every
\* other end of the probe; the registry and its file are as they were.
C23_TestIsAdvisory ==
    [][(/\ mirrorLast'.op = "test"
        /\ \E i \in DOMAIN mirrors : mirrors[i].name = mirrorLast'.name)
       => /\ mirrorLast'.ret.ok
          /\ mirrorLast'.ret.value <=> (mirrorLast'.probe = "success")
          /\ mirrors' = mirrors
          /\ config' = config]_vars

\* C23 witness: a probe that found no connection was answered with false.
C23_Witness ==
    /\ mirrorLast.op = "test"
    /\ mirrorLast.probe = "connect_error"
    /\ mirrorLast.ret = [ok |-> TRUE, value |-> FALSE]

\* C24 as claimed: with mirrors.json missing, unreadable or unparsable the
\* construction of the registry succeeds and gives the built-in mirror alone.
C24_SeededOnBadConfig ==
    (/\ batch.state # "idle"
     /\ batch.cache_ok
     /\ config.kind \in {"absent", "unreadable", "corrupt"})
    => /\ MirrorManagerNew(config).ok
       /\ mirrors = <<BuiltinMirror>>

\* A store of the invocation could not be opened or initialized.
StoreUnavailable ==
    \/ ~batch.cache_ok
    \/ config.kind = "unreadable"
    \/ db_file.kind \in {"unreadable", "corrupt"}

\* C25 as claimed: when a store cannot be opened or initialized, the
\* invocation ends in failure with none of its packages attempted.
C25_FatalAtConstruction ==
    (batch.state # "idle" /\ StoreUnavailable)
    => /\ batch.state = "aborted"
       /\ batch.exit_code # 0
       /\ batch.pending = batch.packages

\* A step that is one package request
RequestStep == Len(history') = Len(history) + 1
LastRequest == history'[Len(history')]

\* C26: a request that finds .sa_env present goes on without starting a
\* creation, whatever the directory holds; one that finds it missing starts
\* one creation and goes on to pip only when that succeeded; over the calls
\* in sequence the environment is created at most once.
C26_EnsureIdempotent ==
    /\ [](Cardinality({i \in DOMAIN history : history[i].venv_step = "created"}) <= 1)
    /\ [][(RequestStep /\ LastRequest.venv_step # "not_reached") =>
            /\ venv => (LastRequest.venv_step = "existed" /\ venv'
                          /\ LastRequest.pip # "not_run")
            /\ ~venv => /\ LastRequest.venv_step \in VenvOutcomes
                        /\ LastRequest.pip # "not_run"
                               <=> LastRequest.venv_step = "created"
                        /\ venv' <=> LastRequest.venv_step # "failed"]_vars

\* C26 witness: a creation failed and left a directory, and the next request
\* took the directory as it was and ran pip.
C26_Witness ==
    /\ Len(history) = 2
    /\ history[1].venv_step = "failed_partial"
    /\ history[2].venv_step = "existed"
    /\ history[2].pip # "not_run"

\* C27 as claimed: after a request for p returned success, requirements.txt
\* has a line that is exactly p.
C27_SuccessMeansListed ==
    \A i \in DOMAIN history :
        history[i].ret = "Ok" =>
            \E j \in DOMAIN requirements : requirements[j] = history[i].package

\* C28 as claimed: a request that fails has not changed requirements.txt.
C28_FailureLeavesRequirements ==
    \A i \in DOMAIN history : history[i].ret = "Err" => ~history[i].wrote

\* C29 as claimed: once the temporary image is built, it is gone when
\* `sa run --docker` returns, whatever became of the two containers, as long
\* as the daemon carries out a removal it is asked for.
C29_TempImageRemoved ==
    (run.pc = "returned" /\ run.built /\ ~run.remove_failed)
    => run.env \notin images

\* C30 as claimed: the graph built from any dependency map has every package
\* name on one node only and every (parent, dependency) pair on one edge
\* only.
C30_GraphWithoutDuplicates ==
    graphLast.op = "graph" =>
        LET g == graphLast.graph IN
        /\ \A i, j \in DOMAIN g.nodes : i # j => g.nodes[i] # g.nodes[j]
        /\ \A i, j \in DOMAIN g.edges : i # j => g.edges[i] # g.edges[j]

====
